---- MODULE Spec2Model ----
(***************************************************************************)
(* Credential pool and rotation engine of clewdr: AppState (state.rs) over *)
(* Config (config.rs).  Request handlers run as concurrent tasks on a      *)
(* multi-threaded runtime; every atomic access and every lock acquisition   *)
(* of the source is a step of its own, so that the interleavings of the    *)
(* handlers and of the spawned cooldown tasks are the behaviours of Spec.  *)
(***************************************************************************)
EXTENDS Integers, Sequences, FiniteSets

\* ------------------------------------------------------------------ bounds
NumTasks == 2            \* request-handling tasks running concurrently
MaxCalls == 3            \* handler invocations the tasks may start, all together
MaxPool == 2             \* credentials in the cookie_array of the loaded file
MaxConsRequests == 1     \* largest max_cons_requests setting tried
MaxRetryAfter == 1       \* largest payload of UselessReason::Exhausted tried
MaxPieces == 3           \* pieces the text of a cookie is put together from
MaxPasses == 2           \* times a cookie text is put through Cookie::from again

Tasks == 1..NumTasks

\* ------------------------------------------------------------------- state
VARIABLES
    cookie_array,        \* Config.cookie_array: sequence of CookieInfo
    cookie_index,        \* Config.cookie_index (0-based, u32)
    wasted_cookie,       \* Config.wasted_cookie: sequence of UselessCookie
    max_cons_requests,   \* Config.max_cons_requests
    disk,                \* content of config.toml (the part Config::save writes)
    config_readers,      \* tasks holding a read guard of InnerState.config
    init_length,         \* InnerState.init_length
    cons_requests,       \* InnerState.cons_requests (AtomicU64)
    rotating,            \* InnerState.rotating (AtomicBool)
    SHIFTS,              \* static SHIFTS of cookie_rotate (AtomicU64)
    cooldown,            \* spawned cooldown tasks: how many stand at each position
    cookies,             \* InnerState.cookies: the jar, key -> value
    pc,                  \* position of each request task
    reason,              \* the argument of the cookie_rotate call a task is in
    caller,              \* where that cookie_rotate call returns to
    cons_local,          \* the local cons_requests of increase_cons_requests
    segments,            \* update_cookies: the key/value pairs still to insert
    result,              \* what the last header_cookie call of a task returned
    calls,               \* handler invocations started so far
    burst,               \* tasks that are to call increase_cons_requests once each
    entry,               \* history: how the task's last cookie_rotate call passed the SHIFTS check
    triggers,            \* history: cookie_rotate(CoolDown) calls made by increase_cons_requests
    disqualified,        \* history: evictions done by cookie_rotate
    conv_uuid,           \* InnerState.conv_uuid: Option<String>
    preserve_chats,      \* Config.settings.preserve_chats
    workers,             \* worker threads of the runtime the tasks are polled on
    chat,                \* what the last delete_chat call of a task returned
    deletes,             \* history: DELETE requests sent upstream
    cookie_str,          \* the &str a Cookie is made from
    inner,               \* Cookie.inner
    passes,              \* how many times the text went through Cookie::from
    first_inner,         \* history: Cookie.inner after the first pass
    merged               \* history: the strings update_cookies was called with

pool == <<cookie_array, cookie_index, wasted_cookie>>
config == <<cookie_array, cookie_index, wasted_cookie, max_cons_requests>>
atomics == <<init_length, cons_requests, rotating, SHIFTS>>
locals == <<pc, reason, caller, cons_local, segments, result>>
budget == <<calls, burst>>
history == <<entry, triggers, disqualified>>
conversation == <<conv_uuid, preserve_chats, workers, chat, deletes>>
credential == <<cookie_str, inner, passes, first_inner>>
vars == <<cookie_array, cookie_index, wasted_cookie, max_cons_requests, disk,
          config_readers, init_length, cons_requests, rotating, SHIFTS, cooldown,
          cookies, pc, reason, caller, cons_local, segments, result, calls, burst,
          entry, triggers, disqualified, conv_uuid, preserve_chats, workers, chat,
          deletes, cookie_str, inner, passes, first_inner, merged>>

\* --------------------------------------------------------------- config.rs
\* enum UselessCookie: the reasons a credential is archived under
UselessCookie == {"Null", "Disabled", "Unverified", "Overlap", "Banned", "Invalid"}

\* UselessReason: CoolDown, Exhausted(i), or one of the archive reasons
UselessReason ==
    {[kind |-> "CoolDown", at |-> 0]}
    \cup {[kind |-> "Exhausted", at |-> i] : i \in 1..MaxRetryAfter}
    \cup {[kind |-> k, at |-> 0] : k \in UselessCookie}

\* struct CookieInfo; reset_time 0 is None
CookieInfo(c) == [cookie |-> c, reset_time |-> 0]

\* Config::cookie_array_len
cookie_array_len(array) == Len(array)

\* Config::current_cookie_info: Some(index) of the current entry, or None
NoCookie == 0 - 1
current_cookie_info(array, index) ==
    IF index < Len(array) THEN index ELSE NoCookie

\* Config::validate, the index repair: the indexes it may leave
validate_strict(array, index) ==
    IF Len(array) # 0 /\ index > Len(array)
    THEN 0..(Len(array) - 1)
    ELSE {index}

validate(array, index) ==
    IF Len(array) # 0 /\ index >= Len(array)
    THEN 0..(Len(array) - 1)
    ELSE {index}

\* Config::save: what the file holds afterwards; the write may fail
Snapshot(array, index, wasted) ==
    [cookie_array |-> array, cookie_index |-> index, wasted_cookie |-> wasted]

save(old, array, index, wasted) ==
    {[result |-> "Ok", file |-> Snapshot(array, index, wasted)],
     [result |-> "Err", file |-> old]}

\* Config::rotate_cookie: the index moves on, circularly over the active list
rotate_cookie(array, index) == (index + 1) % Len(array)

\* Config::cookie_cleaner: the current entry leaves the active list and is
\* archived under the reason; the index is brought back into the list
RemoveAt(s, i) == [j \in 1..(Len(s) - 1) |-> IF j < i THEN s[j] ELSE s[j + 1]]

cleaner_array_keep(array, index) == array

cleaner_array(array, index) == RemoveAt(array, index + 1)

cleaner_wasted(array, index, wasted, kind) ==
    Append(wasted, [reason |-> kind, cookie |-> array[index + 1].cookie])

cleaner_index(array, index) ==
    IF index < Len(array) - 1 THEN {index}
    ELSE IF Len(array) - 1 > 0 THEN 0..(Len(array) - 2)
    ELSE {0}

\* ------------------------------------------------------ state.rs: the jar
\* strings are sequences of one-character strings
Whitespace == {" ", "\t", "\n", "\r", "\f"}

UpperCase == <<"A", "B", "C", "D", "E", "F", "G", "H", "I", "J", "K", "L", "M",
               "N", "O", "P", "Q", "R", "S", "T", "U", "V", "W", "X", "Y", "Z">>
LowerCase == <<"a", "b", "c", "d", "e", "f", "g", "h", "i", "j", "k", "l", "m",
               "n", "o", "p", "q", "r", "s", "t", "u", "v", "w", "x", "y", "z">>

ToLower(c) ==
    IF \E i \in DOMAIN UpperCase : UpperCase[i] = c
    THEN LowerCase[CHOOSE i \in DOMAIN UpperCase : UpperCase[i] = c]
    ELSE c

\* str.split("\n").collect().join("")
IsNotNewline(c) == c # "\n"
JoinLines(str) == SelectSeq(str, IsNotNewline)

\* the first position of character c in s, 0 when there is none
IndexOf(s, c) ==
    IF \E i \in DOMAIN s : s[i] = c
    THEN CHOOSE i \in DOMAIN s : s[i] = c /\ \A j \in 1..(i - 1) : s[j] # c
    ELSE 0

\* re1 = ;\s? and re1.split(str): the pieces between the separators
RECURSIVE re1_split(_)
re1_split(str) ==
    LET i == IndexOf(str, ";") IN
    IF i = 0 THEN <<str>>
    ELSE LET skip == IF i < Len(str) /\ str[i + 1] \in Whitespace THEN 2 ELSE 1 IN
         <<SubSeq(str, 1, i - 1)>> \o re1_split(SubSeq(str, i + skip, Len(str)))

\* re2 = ^(path|expires|domain|HttpOnly|Secure|SameSite)[=;]*, case-insensitive
AttributeNames ==
    { <<"p", "a", "t", "h">>,
      <<"e", "x", "p", "i", "r", "e", "s">>,
      <<"d", "o", "m", "a", "i", "n">>,
      <<"h", "t", "t", "p", "o", "n", "l", "y">>,
      <<"s", "e", "c", "u", "r", "e">>,
      <<"s", "a", "m", "e", "s", "i", "t", "e">> }

re2_is_match(s) ==
    \E w \in AttributeNames :
        /\ Len(s) >= Len(w)
        /\ \A i \in DOMAIN w : ToLower(s[i]) = w[i]

\* re3 = ^(.*?)=\s*(.*) and re3.captures(s): is there a match, and its groups
re3_matches(s) == IndexOf(s, "=") # 0

RECURSIVE SkipWhitespace(_)
SkipWhitespace(s) ==
    IF s # <<>> /\ Head(s) \in Whitespace THEN SkipWhitespace(Tail(s)) ELSE s

re3_captures(s) ==
    LET i == IndexOf(s, "=") IN
    [key |-> SubSeq(s, 1, i - 1), value |-> SkipWhitespace(SubSeq(s, i + 1, Len(s)))]

\* update_cookies: the pairs the for_each inserts, in order
KeptSegment(s) == ~re2_is_match(s) /\ s # <<>> /\ re3_matches(s)

RECURSIVE CaptureAll(_)
CaptureAll(segs) ==
    IF segs = <<>> THEN <<>>
    ELSE <<re3_captures(Head(segs))>> \o CaptureAll(Tail(segs))

update_cookies_pairs(str) ==
    LET joined == JoinLines(str) IN
    IF joined = <<>> THEN <<>>
    ELSE CaptureAll(SelectSeq(re1_split(joined), KeptSegment))

\* HashMap::insert
Insert(jar, key, value) ==
    [k \in DOMAIN jar \cup {key} |-> IF k = key THEN value ELSE jar[k]]

\* header_cookie: format!("{}={}"), join("; "), trim()
RECURSIVE TrimEnd(_)
TrimEnd(s) ==
    IF s # <<>> /\ s[Len(s)] \in Whitespace THEN TrimEnd(SubSeq(s, 1, Len(s) - 1)) ELSE s

Trim(s) == TrimEnd(SkipWhitespace(s))

RECURSIVE JoinPairs(_, _)
JoinPairs(jar, order) ==
    IF order = <<>> THEN <<>>
    ELSE LET one == Head(order) \o <<"=">> \o jar[Head(order)] IN
         IF Len(order) = 1 THEN one
         ELSE one \o <<";", " ">> \o JoinPairs(jar, Tail(order))

\* the orders a HashMap may iterate its keys in
IterationOrders(jar) ==
    {o \in [1..Cardinality(DOMAIN jar) -> DOMAIN jar] :
        \A k \in DOMAIN jar : \E i \in DOMAIN o : o[i] = k}

header_cookie_ok(jar, order) == [ok |-> TRUE, value |-> Trim(JoinPairs(jar, order))]

\* Err(ClewdrError::CookieRotating); and a task that has not called yet
CookieRotating == [ok |-> FALSE, value |-> <<>>]
NoResult == [ok |-> FALSE, value |-> <<"-">>]

\* ------------------------------------------------- config.rs: struct Cookie
Digits == {"0", "1", "2", "3", "4", "5", "6", "7", "8", "9"}

\* char::is_ascii_alphanumeric
is_ascii_alphanumeric(c) ==
    \/ c \in Digits
    \/ \E i \in DOMAIN UpperCase : UpperCase[i] = c
    \/ \E i \in DOMAIN LowerCase : LowerCase[i] = c

\* the filter of Cookie::from
Kept(c) == is_ascii_alphanumeric(c) \/ c = "=" \/ c = "_" \/ c = "-"

sessionKey == <<"s", "e", "s", "s", "i", "o", "n", "K", "e", "y", "=">>

StartsWith(s, prefix) == Len(s) >= Len(prefix) /\ SubSeq(s, 1, Len(prefix)) = prefix

\* str::trim_start_matches: the prefix is taken off as often as it stands there
strip_prefix_once(s, prefix) ==
    IF StartsWith(s, prefix) THEN SubSeq(s, Len(prefix) + 1, Len(s)) ELSE s

RECURSIVE trim_start_matches(_, _)
trim_start_matches(s, prefix) ==
    IF StartsWith(s, prefix)
    THEN trim_start_matches(SubSeq(s, Len(prefix) + 1, Len(s)), prefix)
    ELSE s

\* impl From<&str> for Cookie: the inner of the Cookie made
from(cookie) == trim_start_matches(SelectSeq(cookie, Kept), sessionKey)

\* impl Display for Cookie
fmt(in) == sessionKey \o in

\* Cookie::from(str)
CookieFromStr ==
    /\ passes = 0
    /\ inner' = from(cookie_str)
    /\ first_inner' = from(cookie_str)
    /\ passes' = 1
    /\ UNCHANGED <<cookie_str, conversation, merged>>
    /\ UNCHANGED <<config, disk, config_readers, atomics, cooldown, cookies, locals,
                   budget, history>>

\* Cookie::from on the inner of a Cookie
CookieFromInner ==
    /\ passes \in 1..MaxPasses
    /\ inner' = from(inner)
    /\ passes' = passes + 1
    /\ UNCHANGED <<cookie_str, first_inner, conversation, merged>>
    /\ UNCHANGED <<config, disk, config_readers, atomics, cooldown, cookies, locals,
                   budget, history>>

\* Serialize for Cookie (to_string), then Deserialize for Cookie (Cookie::from)
deserialize ==
    /\ passes \in 1..MaxPasses
    /\ inner' = from(fmt(inner))
    /\ passes' = passes + 1
    /\ UNCHANGED <<cookie_str, first_inner, conversation, merged>>
    /\ UNCHANGED <<config, disk, config_readers, atomics, cooldown, cookies, locals,
                   budget, history>>

\* ---------------------------------------------------------------- state.rs
\* Option<String>
None == <<>>
Some(v) == <<v>>

CoolDown == [kind |-> "CoolDown", at |-> 0]

\* the tasks a worker thread is busy with: a task runs on a worker from the
\* start of a handler to its return, off it only while it stands at an .await
OnWorker == {u \in Tasks : pc[u] \notin {"idle", "dc_send"}}

FreeWorker == Cardinality(OnWorker) < workers

\* a request handler starts: within the budget of the run, on a free worker
Start(t) ==
    /\ pc[t] = "idle"
    /\ FreeWorker
    /\ IF t \in burst
       THEN burst' = burst \ {t} /\ calls' = calls
       ELSE calls < MaxCalls /\ calls' = calls + 1 /\ burst' = burst

\* cookie_rotate returns to where it was called from
Return(t) ==
    /\ pc' = [pc EXCEPT ![t] = caller[t]]
    /\ reason' = [reason EXCEPT ![t] = CoolDown]
    /\ caller' = [caller EXCEPT ![t] = "idle"]

\* cookie_rotate, entry: SHIFTS.load() == self.init_length
used_up(shifts, length) == shifts = length

CrEntry(t, r, back) ==
    IF used_up(SHIFTS, init_length)
    THEN /\ pc' = [pc EXCEPT ![t] = back]
         /\ reason' = [reason EXCEPT ![t] = CoolDown]
         /\ caller' = [caller EXCEPT ![t] = "idle"]
         /\ entry' = [entry EXCEPT ![t] = "used_up"]
    ELSE /\ pc' = [pc EXCEPT ![t] = "cr_mutate"]
         /\ reason' = [reason EXCEPT ![t] = r]
         /\ caller' = [caller EXCEPT ![t] = back]
         /\ entry' = [entry EXCEPT ![t] = IF SHIFTS > init_length THEN "late" ELSE "passed"]

\* AppState::increase_cons_requests, up to the call of cookie_rotate
exceeds_at(cons, max) == cons >= max

exceeds(cons, max) == cons > max

increase_cons_requests(t) ==
    /\ Start(t)
    /\ IF exceeds(cons_requests + 1, max_cons_requests)
       THEN /\ cons_local' = [cons_local EXCEPT ![t] = 0]
            /\ pc' = [pc EXCEPT ![t] = "cr_check"]
            /\ triggers' = triggers + 1
       ELSE /\ cons_local' = [cons_local EXCEPT ![t] = cons_requests + 1]
            /\ pc' = [pc EXCEPT ![t] = "icr_store"]
            /\ UNCHANGED triggers
    /\ UNCHANGED <<conversation, credential, merged>>
    /\ UNCHANGED <<config, disk, config_readers, atomics, cooldown, cookies,
                   reason, caller, segments, result, entry, disqualified>>

\* AppState::increase_cons_requests, the closing store
IncStore(t) ==
    /\ pc[t] = "icr_store"
    /\ cons_requests' = cons_local[t]
    /\ pc' = [pc EXCEPT ![t] = "idle"]
    /\ cons_local' = [cons_local EXCEPT ![t] = 0]
    /\ UNCHANGED <<conversation, credential, merged>>
    /\ UNCHANGED <<config, disk, config_readers, init_length, rotating, SHIFTS, cooldown,
                   cookies, reason, caller, segments, result, budget, history>>

\* AppState::cookie_rotate called by a request handler: entry
cookie_rotate(t, r) ==
    /\ Start(t)
    /\ CrEntry(t, r, "idle")
    /\ UNCHANGED <<conversation, credential, merged>>
    /\ UNCHANGED <<config, disk, config_readers, atomics, cooldown, cookies,
                   cons_local, segments, result, triggers, disqualified>>

\* AppState::cookie_rotate called by increase_cons_requests: entry
CrCheck(t) ==
    /\ pc[t] = "cr_check"
    /\ CrEntry(t, CoolDown, "icr_store")
    /\ UNCHANGED <<conversation, credential, merged>>
    /\ UNCHANGED <<config, disk, config_readers, atomics, cooldown, cookies,
                   cons_local, segments, result, budget, triggers, disqualified>>

\* current_cookie.reset_time = Some(i): current_cookie is what
\* Config::current_cookie_info returned, the current entry by value (.clone()),
\* so the assignment lands in that copy and the cookie_array keeps its entry
set_reset_time(array, index, at) == array

\* AppState::cookie_rotate, the scope under config.write()
CrMutate(t) ==
    /\ pc[t] = "cr_mutate"
    /\ config_readers = {}
    /\ LET cur == current_cookie_info(cookie_array, cookie_index) IN
       IF cur = NoCookie
       THEN /\ Return(t)
            /\ UNCHANGED <<pool, disk, disqualified>>
       ELSE /\ pc' = [pc EXCEPT ![t] = "cr_save"]
            /\ UNCHANGED <<reason, caller>>
            /\ CASE reason[t].kind = "CoolDown" ->
                      /\ cookie_index' = rotate_cookie(cookie_array, cookie_index)
                      /\ UNCHANGED <<cookie_array, wasted_cookie, disk, disqualified>>
                 [] reason[t].kind = "Exhausted" ->
                      /\ cookie_array' = set_reset_time(cookie_array, cur, reason[t].at)
                      /\ \E w \in save(disk, cookie_array', cookie_index, wasted_cookie) :
                            disk' = w.file
                      /\ cookie_index' = rotate_cookie(cookie_array', cookie_index)
                      /\ UNCHANGED <<wasted_cookie, disqualified>>
                 [] OTHER ->
                      /\ cookie_array' = cleaner_array(cookie_array, cookie_index)
                      /\ wasted_cookie' = cleaner_wasted(cookie_array, cookie_index,
                                                         wasted_cookie, reason[t].kind)
                      /\ cookie_index' \in cleaner_index(cookie_array, cookie_index)
                      /\ disqualified' = disqualified + 1
                      /\ UNCHANGED disk
    /\ UNCHANGED <<conversation, credential, merged>>
    /\ UNCHANGED <<max_cons_requests, config_readers, atomics, cooldown, cookies,
                   cons_local, segments, result, budget, entry, triggers>>

\* config.save().unwrap_or_else(|e| error!(..)): where cookie_rotate goes on
\* after the write; an Err is logged and dropped
unwrap_or_panic(r) == IF r = "Ok" THEN "cr_spawn" ELSE "panicked"

unwrap_or_else(r) == "cr_spawn"

\* AppState::cookie_rotate, config.read() and the save under it
CrSave(t) ==
    /\ pc[t] = "cr_save"
    /\ config_readers' = config_readers \cup {t}
    /\ \E w \in save(disk, cookie_array, cookie_index, wasted_cookie) :
          /\ disk' = w.file
          /\ pc' = [pc EXCEPT ![t] = unwrap_or_else(w.result)]
    /\ UNCHANGED <<conversation, credential, merged>>
    /\ UNCHANGED <<config, atomics, cooldown, cookies, reason, caller, cons_local,
                   segments, result, budget, history>>

\* AppState::cookie_rotate, SHIFTS.fetch_add, spawn and return
CrSpawn(t) ==
    /\ pc[t] = "cr_spawn"
    /\ SHIFTS' = SHIFTS + 1
    /\ cooldown' = [cooldown EXCEPT !.spawned = @ + 1]
    /\ config_readers' = config_readers \ {t}
    /\ Return(t)
    /\ UNCHANGED <<conversation, credential, merged>>
    /\ UNCHANGED <<config, disk, init_length, cons_requests, rotating, cookies,
                   cons_local, segments, result, budget, history>>

\* the spawned task: rotating.store(true)
CdStart ==
    /\ cooldown.spawned > 0
    /\ rotating' = TRUE
    /\ cooldown' = [cooldown EXCEPT !.spawned = @ - 1, !.flagged = @ + 1]
    /\ UNCHANGED <<conversation, credential, merged>>
    /\ UNCHANGED <<config, disk, config_readers, init_length, cons_requests, SHIFTS,
                   cookies, locals, budget, history>>

\* the spawned task: cons_requests.store(0), then sleep(dur)
CdReset ==
    /\ cooldown.flagged > 0
    /\ cons_requests' = 0
    /\ cooldown' = [cooldown EXCEPT !.flagged = @ - 1, !.sleeping = @ + 1]
    /\ UNCHANGED <<conversation, credential, merged>>
    /\ UNCHANGED <<config, disk, config_readers, init_length, rotating, SHIFTS,
                   cookies, locals, budget, history>>

\* the spawned task: what it stores to rotating after the sleep
store_after_sleep_kept == rotating

store_after_sleep == FALSE

\* the spawned task: the sleep is over, rotating.store(false)
CdWake ==
    /\ cooldown.sleeping > 0
    /\ rotating' = store_after_sleep
    /\ cooldown' = [cooldown EXCEPT !.sleeping = @ - 1, !.waking = @ + 1]
    /\ UNCHANGED <<conversation, credential, merged>>
    /\ UNCHANGED <<config, disk, config_readers, init_length, cons_requests, SHIFTS,
                   cookies, locals, budget, history>>

\* the spawned task: bootstrap() and the end of the task
CdBootstrap ==
    /\ cooldown.waking > 0
    /\ cooldown' = [cooldown EXCEPT !.waking = @ - 1]
    /\ UNCHANGED <<conversation, credential, merged>>
    /\ UNCHANGED <<config, disk, config_readers, atomics, cookies, locals, budget, history>>

\* AppState::update_cookies: the header is split and filtered
update_cookies(t, str) ==
    /\ Start(t)
    /\ LET pairs == update_cookies_pairs(str) IN
       /\ segments' = [segments EXCEPT ![t] = pairs]
       /\ pc' = [pc EXCEPT ![t] = IF pairs = <<>> THEN "idle" ELSE "uc_insert"]
    /\ merged' = Append(merged, str)
    /\ UNCHANGED <<conversation, credential>>
    /\ UNCHANGED <<config, disk, config_readers, atomics, cooldown, cookies,
                   reason, caller, cons_local, result, history>>

\* AppState::update_cookies: one turn of the for_each, under cookies.write()
UcInsert(t) ==
    /\ pc[t] = "uc_insert"
    /\ cookies' = Insert(cookies, Head(segments[t]).key, Head(segments[t]).value)
    /\ segments' = [segments EXCEPT ![t] = Tail(@)]
    /\ pc' = [pc EXCEPT ![t] = IF Tail(segments[t]) = <<>> THEN "idle" ELSE "uc_insert"]
    /\ UNCHANGED <<conversation, credential, merged>>
    /\ UNCHANGED <<config, disk, config_readers, atomics, cooldown,
                   reason, caller, cons_local, result, budget, history>>

\* AppState::header_cookie: the rotating guard
guard_inverted(flag) == ~flag

guard(flag) == flag

header_cookie(t) ==
    /\ Start(t)
    /\ IF guard(rotating)
       THEN /\ result' = [result EXCEPT ![t] = CookieRotating]
            /\ UNCHANGED pc
       ELSE /\ pc' = [pc EXCEPT ![t] = "hc_read"]
            /\ UNCHANGED result
    /\ UNCHANGED <<conversation, credential, merged>>
    /\ UNCHANGED <<config, disk, config_readers, atomics, cooldown, cookies,
                   reason, caller, cons_local, segments, history>>

\* AppState::header_cookie: the jar is read and rendered
HcRead(t) ==
    /\ pc[t] = "hc_read"
    /\ \E order \in IterationOrders(cookies) :
          result' = [result EXCEPT ![t] = header_cookie_ok(cookies, order)]
    /\ pc' = [pc EXCEPT ![t] = "idle"]
    /\ UNCHANGED <<conversation, credential, merged>>
    /\ UNCHANGED <<config, disk, config_readers, atomics, cooldown, cookies,
                   reason, caller, cons_local, segments, budget, history>>

\* AppState::delete_chat: conv_uuid.write().take(), the clones of config and
\* uuid_org, and the two early returns
delete_chat(t) ==
    /\ Start(t)
    /\ conv_uuid' = None
    /\ IF conv_uuid = None \/ conv_uuid = Some("") \/ preserve_chats
       THEN /\ chat' = [chat EXCEPT ![t] = "Ok"]
            /\ UNCHANGED pc
       ELSE /\ chat' = [chat EXCEPT ![t] = "none"]
            /\ pc' = [pc EXCEPT ![t] = "dc_header"]
    /\ UNCHANGED <<preserve_chats, workers, deletes, credential, merged>>
    /\ UNCHANGED <<config, disk, config_readers, atomics, cooldown, cookies,
                   reason, caller, cons_local, segments, result, history>>

\* AppState::delete_chat: self.header_cookie()? in the arguments of the request
DcHeader(t) ==
    /\ pc[t] = "dc_header"
    /\ IF guard(rotating)
       THEN /\ chat' = [chat EXCEPT ![t] = "CookieRotating"]
            /\ pc' = [pc EXCEPT ![t] = "idle"]
       ELSE /\ pc' = [pc EXCEPT ![t] = "dc_proxy"]
            /\ UNCHANGED chat
    /\ UNCHANGED <<conv_uuid, preserve_chats, workers, deletes, credential, merged>>
    /\ UNCHANGED <<config, disk, config_readers, atomics, cooldown, cookies,
                   reason, caller, cons_local, segments, result, budget, history>>

\* AppState::delete_chat: self.config.read() in the arguments of the request, and
\* send(): the guard is a temporary of the statement and lives until the
\* statement ends, so the task is suspended at the .await with the guard held
DcSend(t) ==
    /\ pc[t] = "dc_proxy"
    /\ config_readers' = config_readers \cup {t}
    /\ deletes' = deletes + 1
    /\ pc' = [pc EXCEPT ![t] = "dc_send"]
    /\ UNCHANGED <<conv_uuid, preserve_chats, workers, chat, credential, merged>>
    /\ UNCHANGED <<config, disk, atomics, cooldown, cookies,
                   reason, caller, cons_local, segments, result, budget, history>>

\* AppState::delete_chat: the response is there and a worker polls the task
\* again; an Err leaves by the ?, an Ok goes on to update_cookie_from_res
DcResponse(t, res) ==
    /\ pc[t] = "dc_send"
    /\ FreeWorker
    /\ config_readers' = config_readers \ {t}
    /\ IF ~res.ok
       THEN /\ chat' = [chat EXCEPT ![t] = "Transport"]
            /\ pc' = [pc EXCEPT ![t] = "idle"]
            /\ UNCHANGED <<segments, merged>>
       ELSE LET pairs == IF res.set_cookie = None THEN <<>>
                         ELSE update_cookies_pairs(res.set_cookie[1]) IN
            /\ chat' = [chat EXCEPT ![t] = "Ok"]
            /\ segments' = [segments EXCEPT ![t] = pairs]
            /\ merged' = IF res.set_cookie = None THEN merged
                         ELSE Append(merged, res.set_cookie[1])
            /\ pc' = [pc EXCEPT ![t] = IF pairs = <<>> THEN "idle" ELSE "uc_insert"]
    /\ UNCHANGED <<conv_uuid, preserve_chats, workers, deletes, credential>>
    /\ UNCHANGED <<config, disk, atomics, cooldown, cookies,
                   reason, caller, cons_local, result, budget, history>>

\* ------------------------------------------------------------ specification
\* the file as loaded: the archive a previous run may have left
LoadedWasted == {<<>>, <<[reason |-> "Invalid", cookie |-> 0]>>}

\* the reasons the request handlers are run with
Reasons == {CoolDown, [kind |-> "Exhausted", at |-> MaxRetryAfter],
            [kind |-> "Banned", at |-> 0], [kind |-> "Invalid", at |-> 0]}

\* the Set-Cookie values the upstream is taken to answer with
SetCookieHeaders ==
    { <<"f", "o", "o", "=", "1", ";", " ", "P", "a", "t", "h", "=", "/", ";", " ",
        "b", "a", "r", "=", "2", ";", " ", "H", "t", "t", "p", "O", "n", "l", "y">>,
      <<"b", "a", "r", "=", " ", "3", ";", "j", "u", "n", "k", ";", "\n", "f", "o", "o", "=", "4">> }

\* Config::load, Config::validate and AppState::new
Loaded(sizes, indexes, archives, maxes) ==
    \E n \in sizes, persisted \in indexes, w \in archives :
       LET array == [i \in 1..n |-> CookieInfo(i)] IN
       /\ cookie_array = array
       /\ cookie_index \in validate(array, persisted)
       /\ wasted_cookie = w
       /\ max_cons_requests \in maxes
       /\ disk = Snapshot(array, persisted, w)
       /\ config_readers = {}
       /\ init_length = cookie_array_len(array)
       /\ cons_requests = 0
       /\ rotating = FALSE
       /\ SHIFTS = 0
       /\ cooldown = [spawned |-> 0, flagged |-> 0, sleeping |-> 0, waking |-> 0]
       /\ cookies = <<>>
       /\ pc = [t \in Tasks |-> "idle"]
       /\ reason = [t \in Tasks |-> CoolDown]
       /\ caller = [t \in Tasks |-> "idle"]
       /\ cons_local = [t \in Tasks |-> 0]
       /\ segments = [t \in Tasks |-> <<>>]
       /\ result = [t \in Tasks |-> NoResult]
       /\ entry = [t \in Tasks |-> "none"]
       /\ triggers = 0
       /\ disqualified = 0
       /\ chat = [t \in Tasks |-> "none"]
       /\ deletes = 0
       /\ merged = <<>>

\* the runtime the tasks run on, and the conversation held at the start
Runtime(threads, uuids, preserves) ==
    /\ workers \in threads
    /\ conv_uuid \in uuids
    /\ preserve_chats \in preserves

\* the text a Cookie is to be made from
Text(strs) ==
    /\ cookie_str \in strs
    /\ inner = <<>>
    /\ passes = 0
    /\ first_inner = <<>>

\* the rotation engine and the jar: their handlers, from every loaded file,
\* with a worker thread for every task and no conversation held
Init ==
    /\ Loaded(0..MaxPool, 0..MaxPool, LoadedWasted, 0..MaxConsRequests)
    /\ calls = 0
    /\ burst = {}
    /\ Runtime({NumTasks}, {None}, {FALSE})
    /\ Text({<<>>})

Next ==
    \/ \E t \in Tasks : increase_cons_requests(t)
    \/ \E t \in Tasks : IncStore(t)
    \/ \E t \in Tasks : \E r \in Reasons : cookie_rotate(t, r)
    \/ \E t \in Tasks : CrCheck(t)
    \/ \E t \in Tasks : CrMutate(t)
    \/ \E t \in Tasks : CrSave(t)
    \/ \E t \in Tasks : CrSpawn(t)
    \/ CdStart
    \/ CdReset
    \/ CdWake
    \/ CdBootstrap
    \/ \E t \in Tasks : \E str \in SetCookieHeaders : update_cookies(t, str)
    \/ \E t \in Tasks : UcInsert(t)
    \/ \E t \in Tasks : header_cookie(t)
    \/ \E t \in Tasks : HcRead(t)

Spec == Init /\ [][Next]_vars

\* what the upstream may answer a DELETE with
Responses ==
    {[ok |-> FALSE, set_cookie |-> None], [ok |-> TRUE, set_cookie |-> None]}
    \cup {[ok |-> TRUE, set_cookie |-> Some(h)] : h \in SetCookieHeaders}

\* the conversations a run may start with
Conversations == {None, Some(""), Some("c1")}

\* every handler, delete_chat among them, on a runtime of one worker thread or
\* more, over a full pool
InitChat ==
    /\ Loaded({MaxPool}, {0}, {<<>>}, {MaxConsRequests})
    /\ calls = 0
    /\ burst = {}
    /\ Runtime(1..NumTasks, Conversations, BOOLEAN)
    /\ Text({<<>>})

NextChat ==
    \/ \E t \in Tasks : increase_cons_requests(t)
    \/ \E t \in Tasks : IncStore(t)
    \/ \E t \in Tasks : \E r \in Reasons : cookie_rotate(t, r)
    \/ \E t \in Tasks : CrCheck(t)
    \/ \E t \in Tasks : CrMutate(t)
    \/ \E t \in Tasks : CrSave(t)
    \/ \E t \in Tasks : CrSpawn(t)
    \/ CdStart
    \/ CdReset
    \/ CdWake
    \/ CdBootstrap
    \/ \E t \in Tasks : \E str \in SetCookieHeaders : update_cookies(t, str)
    \/ \E t \in Tasks : UcInsert(t)
    \/ \E t \in Tasks : header_cookie(t)
    \/ \E t \in Tasks : HcRead(t)
    \/ \E t \in Tasks : delete_chat(t)
    \/ \E t \in Tasks : DcHeader(t)
    \/ \E t \in Tasks : DcSend(t)
    \/ \E t \in Tasks : \E res \in Responses : DcResponse(t, res)

SpecChat == InitChat /\ [][NextChat]_vars

\* the pool alone: concurrent cookie_rotate calls with every reason; the spawned
\* tasks and the jar touch no field of the pool and are left out
InitPool ==
    /\ Loaded(0..MaxPool, 0..MaxPool, LoadedWasted, {MaxConsRequests})
    /\ calls = 0
    /\ burst = {}
    /\ Runtime({NumTasks}, {None}, {FALSE})
    /\ Text({<<>>})

NextPool ==
    \/ \E t \in Tasks : \E r \in Reasons : cookie_rotate(t, r)
    \/ \E t \in Tasks : CrMutate(t)
    \/ \E t \in Tasks : CrSave(t)
    \/ \E t \in Tasks : CrSpawn(t)

SpecPool == InitPool /\ [][NextPool]_vars

\* one reason for each arm of the match in cookie_rotate
ArmReasons == {CoolDown, [kind |-> "Exhausted", at |-> MaxRetryAfter],
               [kind |-> "Banned", at |-> 0]}

\* the rotation engine alone: concurrent cookie_rotate calls with every reason
\* over a full pool, and the cooldown tasks they spawn
InitRotate ==
    /\ Loaded({MaxPool}, {0}, {<<>>}, {MaxConsRequests})
    /\ calls = 0
    /\ burst = {}
    /\ Runtime({NumTasks}, {None}, {FALSE})
    /\ Text({<<>>})

NextRotate ==
    \/ \E t \in Tasks : \E r \in ArmReasons : cookie_rotate(t, r)
    \/ \E t \in Tasks : CrMutate(t)
    \/ \E t \in Tasks : CrSave(t)
    \/ \E t \in Tasks : CrSpawn(t)
    \/ CdStart
    \/ CdReset
    \/ CdWake
    \/ CdBootstrap

SpecRotate == InitRotate /\ [][NextRotate]_vars

\* rotations for a cooldown and the tasks they spawn, under the scheduling of
\* the runtime: a spawned task is started, its sleep ends, and each of its
\* steps is taken once it can be; the request handlers are under no such
\* obligation
NextCooldown ==
    \/ \E t \in Tasks : cookie_rotate(t, CoolDown)
    \/ \E t \in Tasks : CrMutate(t)
    \/ \E t \in Tasks : CrSave(t)
    \/ \E t \in Tasks : CrSpawn(t)
    \/ CdStart
    \/ CdReset
    \/ CdWake
    \/ CdBootstrap

SpecCooldown ==
    /\ InitRotate
    /\ [][NextCooldown]_vars
    /\ WF_vars(CdStart)
    /\ WF_vars(CdReset)
    /\ WF_vars(CdWake)
    /\ WF_vars(CdBootstrap)

\* the jar: update_cookies and header_cookie beside rotations and their cooldowns
InitJar ==
    /\ Loaded({MaxPool}, {0}, {<<>>}, {MaxConsRequests})
    /\ calls = 0
    /\ burst = {}
    /\ Runtime({NumTasks}, {None}, {FALSE})
    /\ Text({<<>>})

NextJar ==
    \/ \E t \in Tasks : cookie_rotate(t, CoolDown)
    \/ \E t \in Tasks : CrMutate(t)
    \/ \E t \in Tasks : CrSave(t)
    \/ \E t \in Tasks : CrSpawn(t)
    \/ CdStart
    \/ CdReset
    \/ CdWake
    \/ CdBootstrap
    \/ \E t \in Tasks : \E str \in SetCookieHeaders : update_cookies(t, str)
    \/ \E t \in Tasks : UcInsert(t)
    \/ \E t \in Tasks : header_cookie(t)
    \/ \E t \in Tasks : HcRead(t)

SpecJar == InitJar /\ [][NextJar]_vars

\* a Set-Cookie value with a cookie whose name begins like an attribute
PathwayHeader ==
    <<"s", "i", "d", "=", "7", ";", " ", "P", "a", "t", "h", "=", "/", ";", " ",
      "p", "a", "t", "h", "w", "a", "y", "=", "9">>

\* update_cookies alone: the merges run one after another, none beside another
InitMerge ==
    /\ Loaded({MaxPool}, {0}, {<<>>}, {MaxConsRequests})
    /\ calls = 0
    /\ burst = {}
    /\ Runtime({NumTasks}, {None}, {FALSE})
    /\ Text({<<>>})

NextMerge ==
    \/ /\ \A u \in Tasks : pc[u] = "idle"
       /\ \E t \in Tasks : \E str \in SetCookieHeaders \cup {PathwayHeader} :
             update_cookies(t, str)
    \/ \E t \in Tasks : UcInsert(t)

SpecMerge == InitMerge /\ [][NextMerge]_vars

\* the pieces cookie texts are put together from: the envelope whole and in
\* halves, kept characters, and characters the filter drops (a blank, a
\* semicolon and a line break, and U+00E9 for a letter outside ASCII)
Pieces ==
    { sessionKey, <<"s", "e", "s", "s", "i", "o", "n">>, <<"K", "e", "y", "=">>,
      <<"s", "k", "-", "a", "n", "t", "_", "0", "1">>, <<"=">>,
      <<" ">>, <<"X", ";", "\n", "9">>, <<"U+00E9">> }

RECURSIVE Concat(_)
Concat(pieces) == IF pieces = <<>> THEN <<>> ELSE Head(pieces) \o Concat(Tail(pieces))

CookieTexts == {Concat(ps) : ps \in UNION {[1..n -> Pieces] : n \in 0..MaxPieces}}

\* Cookie::from alone, on every text
InitCookie ==
    /\ Loaded({MaxPool}, {0}, {<<>>}, {MaxConsRequests})
    /\ calls = 0
    /\ burst = {}
    /\ Runtime({NumTasks}, {None}, {FALSE})
    /\ Text(CookieTexts)

NextCookie ==
    \/ CookieFromStr
    \/ CookieFromInner
    \/ deserialize

SpecCookie == InitCookie /\ [][NextCookie]_vars

\* a burst: max_cons_requests + 1 tasks call increase_cons_requests once each,
\* from a counter of zero
InitBurst ==
    /\ Loaded(0..MaxPool, 0..MaxPool, LoadedWasted, 0..MaxConsRequests)
    /\ calls = MaxCalls
    /\ burst = 1..(max_cons_requests + 1)
    /\ Runtime({NumTasks}, {None}, {FALSE})
    /\ Text({<<>>})

NextBurst ==
    \/ \E t \in burst : increase_cons_requests(t)
    \/ \E t \in Tasks : IncStore(t)
    \/ \E t \in Tasks : CrCheck(t)
    \/ \E t \in Tasks : CrMutate(t)
    \/ \E t \in Tasks : CrSave(t)
    \/ \E t \in Tasks : CrSpawn(t)
    \/ CdStart
    \/ CdReset
    \/ CdWake
    \/ CdBootstrap

SpecBurst == InitBurst /\ [][NextBurst]_vars

\* ------------------------------------------------------------------ claims
LoadedCredentials == 1..init_length

Active(c) == {i \in DOMAIN cookie_array : cookie_array[i].cookie = c}
Archived(c) == {i \in DOMAIN wasted_cookie : wasted_cookie[i].cookie = c}

InCookieRotate(t) == pc[t] \in {"cr_check", "cr_mutate", "cr_save", "cr_spawn"}

\* C1: in every reachable state, under concurrent cookie_rotate calls with any
\* reasons, every credential loaded into the pool stands exactly once in
\* cookie_array and wasted_cookie taken together: in one of them, never in
\* both, never in neither, never twice.
C1_ExactlyOnePlace ==
    \A c \in LoadedCredentials :
        Cardinality(Active(c)) + Cardinality(Archived(c)) = 1

\* C1, its case: one credential has been archived by a rotation while another
\* is still active and a second cookie_rotate call is under way.
C1_Witness ==
    /\ \E c \in LoadedCredentials : Archived(c) # {}
    /\ \E c \in LoadedCredentials : Active(c) # {}
    /\ \E t \in Tasks : pc[t] = "cr_save"
    /\ SHIFTS >= 1

\* the pairs that re-reading a rendered header gives back, as a jar
RECURSIVE JarOf(_)
JarOf(pairs) ==
    IF pairs = <<>> THEN <<>>
    ELSE LET rest == JarOf(SubSeq(pairs, 1, Len(pairs) - 1))
             last == pairs[Len(pairs)]
         IN  Insert(rest, last.key, last.value)

RECURSIVE RenderedLength(_, _)
RenderedLength(jar, keys) ==
    IF keys = {} THEN 0
    ELSE LET k == CHOOSE x \in keys : TRUE IN
         Len(k) + 1 + Len(jar[k]) + (IF keys = {k} THEN 0 ELSE 2)
           + RenderedLength(jar, keys \ {k})

IsRenderingOf(str, jar) ==
    /\ Len(str) = RenderedLength(jar, DOMAIN jar)
    /\ JarOf(update_cookies_pairs(str)) = jar

\* C2: a header_cookie call that finds the rotating flag set returns the
\* CookieRotating error and nothing of the jar; one that finds it clear goes on
\* to read the jar and returns Ok with the jar rendered as k1=v1; k2=v2, each
\* key once.
C2_HeaderCookie ==
    [][\A t \in Tasks :
          /\ header_cookie(t) =>
                IF rotating
                THEN result'[t] = CookieRotating /\ result'[t].value = <<>> /\ pc'[t] = "idle"
                ELSE pc'[t] = "hc_read"
          /\ HcRead(t) => result'[t].ok /\ IsRenderingOf(result'[t].value, cookies)]_vars

\* C2, its case: the flag is set, the jar holds both cookies, one task got
\* the error and holds no content.
C2_Witness ==
    /\ rotating
    /\ Cardinality(DOMAIN cookies) = 2
    /\ \E t \in Tasks : result[t] = CookieRotating

\* C3: in a burst of max_cons_requests + 1 concurrent increase_cons_requests
\* calls from a counter of zero, at most one of them calls
\* cookie_rotate(CoolDown), whatever the interleaving.
C3_AtMostOneRotation == triggers <= 1

\* C3, its case: the whole burst has run, with the largest threshold, and one
\* caller did trigger the rotation.
C3_Witness ==
    /\ burst = {}
    /\ \A t \in Tasks : pc[t] = "idle"
    /\ max_cons_requests = MaxConsRequests
    /\ triggers = 1
    /\ SHIFTS = 1

\* C4: once SHIFTS has met init_length, a cookie_rotate call that begins
\* afterwards changes nothing: it never gets to mutate the pool, to save or to
\* spawn a cooldown.
C4_ExhaustedIsAbsorbing ==
    \A t \in Tasks : entry[t] = "late" => pc[t] \notin {"cr_save", "cr_spawn"}

\* C5: cookie_rotate rejects a call as used up only when every credential of
\* the loaded pool has been disqualified.
C5_UsedUpOnlyWhenAllDisqualified ==
    \A t \in Tasks :
        entry[t] = "used_up" => \A c \in LoadedCredentials : Archived(c) # {}

\* C6: with no cookie_rotate call under way, after k >= 1 disqualifications the
\* active list is k shorter than at load, the archive holds k entries more
\* (the k evicted credentials, under archive reasons), and SHIFTS equals k.
C6_DisqualifiedKTimes ==
    (disqualified >= 1 /\ \A t \in Tasks : ~InCookieRotate(t)) =>
        /\ Len(cookie_array) = init_length - disqualified
        /\ Cardinality({i \in DOMAIN wasted_cookie :
                           /\ wasted_cookie[i].cookie \in LoadedCredentials
                           /\ wasted_cookie[i].reason \in UselessCookie}) = disqualified
        /\ SHIFTS = disqualified

\* C7: in every reachable state SHIFTS is at most init_length.
C7_ShiftsBounded == SHIFTS <= init_length

\* C8: whenever cookie_array is not empty, 0 <= cookie_index < its length:
\* after load and validate for any persisted index, and after every
\* cookie_rotate with any reason.
C8_IndexInRange ==
    Len(cookie_array) > 0 => 0 <= cookie_index /\ cookie_index < Len(cookie_array)

\* C8, its case: the file was loaded with an index outside the list, and a
\* rotation has since evicted a credential from a list that is still not empty.
C8_Witness ==
    /\ disk.cookie_index >= Len(disk.cookie_array)
    /\ Len(disk.cookie_array) > 0
    /\ disqualified >= 1
    /\ Len(cookie_array) > 0

\* C9: at most one cooldown is in flight at any time: a cookie_rotate call that
\* comes while one is sleeping starts no second one.
C9_OneCooldownInFlight == cooldown.sleeping <= 1

\* C10: cons_requests is set back to zero only where a cooldown begins, by the
\* spawned task on its way into the sleep.
C10_ResetOnlyAtCooldown ==
    [][(cons_requests # 0 /\ cons_requests' = 0) =>
          cooldown'.sleeping = cooldown.sleeping + 1]_vars


\* the steps by which a task goes on inside the handler it is in
TaskStep(t) ==
    \/ IncStore(t)
    \/ CrCheck(t)
    \/ CrMutate(t)
    \/ CrSave(t)
    \/ CrSpawn(t)
    \/ UcInsert(t)
    \/ HcRead(t)
    \/ DcHeader(t)
    \/ DcSend(t)
    \/ \E res \in Responses : DcResponse(t, res)

\* C11: no interleaving of the handlers and the cooldown tasks deadlocks: as
\* long as some task is inside a handler, some task inside a handler can take
\* its next step, so that no task waits for a lock that is never released
C11_NoDeadlock ==
    (\E t \in Tasks : pc[t] # "idle")
        => \E t \in Tasks : pc[t] # "idle" /\ ENABLED TaskStep(t)

\* C12: in cookie_rotate the writer lock of the pool is held for the in-memory
\* mutation only: the step under config.write() writes nothing to the file, for
\* every reason; the file is written after the writer lock is released
C12_SaveAfterWriteLock ==
    [][\A t \in Tasks : CrMutate(t) => disk' = disk]_vars

\* C13: a failed write of the file during cookie_rotate is absorbed: whatever
\* the write returned, the call is not left, the pool stays as mutated, and the
\* call goes on to spawn its cooldown task as after a successful write
C13_SaveFailureAbsorbed ==
    [][\A t \in Tasks :
          /\ CrSave(t) => pool' = pool /\ pc'[t] = "cr_spawn"
          /\ pc[t] = "cr_spawn" /\ pc'[t] # "cr_spawn"
                => cooldown'.spawned = cooldown.spawned + 1]_vars

\* a rotation none of whose writes reached the file has run to its end: the
\* pool is mutated, the cooldown is over and its bootstrap is done
C13_Witness ==
    /\ SHIFTS = 1
    /\ \A t \in Tasks : pc[t] = "idle"
    /\ cooldown = [spawned |-> 0, flagged |-> 0, sleeping |-> 0, waking |-> 0]
    /\ ~rotating
    /\ cookie_index # 0
    /\ disk = Snapshot([i \in 1..MaxPool |-> CookieInfo(i)], 0, <<>>)

\* the merge as specified: a segment is an attribute when its name, the text
\* before the first "=" or the whole segment, is one of the attribute names
\* in any case; every other segment with a "=" is upserted, the rest skipped
NameOf(seg) ==
    IF IndexOf(seg, "=") = 0 THEN seg ELSE SubSeq(seg, 1, IndexOf(seg, "=") - 1)

IsAttribute(seg) == [i \in DOMAIN NameOf(seg) |-> ToLower(NameOf(seg)[i])] \in AttributeNames

IsCookie(seg) == ~IsAttribute(seg) /\ IndexOf(seg, "=") # 0

RECURSIVE Upsert(_, _)
Upsert(jar, pairs) ==
    IF pairs = <<>> THEN jar
    ELSE Upsert(Insert(jar, Head(pairs).key, Head(pairs).value), Tail(pairs))

RECURSIVE MergedJar(_, _)
MergedJar(jar, strs) ==
    IF strs = <<>> THEN jar
    ELSE MergedJar(Upsert(jar, CaptureAll(SelectSeq(re1_split(JoinLines(Head(strs))),
                                                    IsCookie))),
                   Tail(strs))

\* C14: once the merges called so far are done, the jar holds exactly the
\* cookies of their strings, attributes discarded, malformed segments skipped,
\* the last value written for a key winning; so merging a string a second
\* time leaves the jar as the first merge left it
C14_Merge ==
    (\A t \in Tasks : pc[t] = "idle")
        => /\ cookies = MergedJar(<<>>, merged)
           /\ Len(merged) = 2 /\ merged[1] = merged[2]
                 => cookies = MergedJar(<<>>, <<merged[1]>>)

\* C15: Cookie::from is idempotent: the inner it makes of a text holds only
\* ASCII letters and digits, "=", "_" and "-", does not begin with the
\* sessionKey= envelope, and stays the same however often it is put through
\* Cookie::from again, directly or written out and read back
C15_NormalizeIdempotent ==
    passes >= 1
        => /\ inner = first_inner
           /\ \A i \in DOMAIN inner : Kept(inner[i])
           /\ ~StartsWith(inner, sessionKey)
           /\ \E k \in 0..Len(cookie_str) :
                 inner = SubSeq(SelectSeq(cookie_str, Kept), k + 1,
                                Len(SelectSeq(cookie_str, Kept)))

\* a text wrapped twice in the envelope, with a character the filter drops,
\* has been put through Cookie::from again as often as the run allows
C15_Witness ==
    /\ passes = MaxPasses + 1
    /\ StartsWith(SelectSeq(cookie_str, Kept), sessionKey \o sessionKey)
    /\ SelectSeq(cookie_str, Kept) # cookie_str
    /\ inner # <<>>

\* C16: delete_chat is a no-op when no conversation id is held or when
\* preserve_chats is on: it returns Ok at once, sends nothing upstream, and
\* leaves the held conversation id and the jar as they were
C16_DeleteChatNoOp ==
    [][\A t \in Tasks :
          delete_chat(t) /\ (conv_uuid = None \/ preserve_chats)
              => /\ chat'[t] = "Ok"
                 /\ pc'[t] = "idle"
                 /\ deletes' = deletes
                 /\ conv_uuid' = conv_uuid
                 /\ cookies' = cookies]_vars

\* a rotation has mutated the pool and its cooldown is not over: the call is
\* past the write scope, or its spawned task has not yet come out of the sleep
CoolingDown ==
    \/ \E t \in Tasks : pc[t] \in {"cr_save", "cr_spawn"}
    \/ cooldown.spawned + cooldown.flagged + cooldown.sleeping > 0

\* C17: from the mutation of the pool by cookie_rotate until the end of that
\* rotation's cooldown the rotating flag is set (so that header_cookie fails):
\* no gap after the mutation, no clearing by an earlier cooldown
C17_FlagCoversCooldown == CoolingDown => rotating

\* C18: a cookie_rotate(CoolDown) call on a pool with a current credential
\* only moves the index on, circularly over the active list: the active list,
\* the archive and the counter SHIFTS stay as they are in each of its steps
C18_CoolDownOnlyAdvances ==
    [][\A t \in Tasks :
          /\ reason[t].kind = "CoolDown"
          /\ current_cookie_info(cookie_array, cookie_index) # NoCookie
          /\ CrMutate(t) \/ CrSave(t) \/ CrSpawn(t)
          => /\ cookie_array' = cookie_array
             /\ wasted_cookie' = wasted_cookie
             /\ SHIFTS' = SHIFTS
             /\ cookie_index' =
                   IF pc[t] = "cr_mutate" THEN (cookie_index + 1) % Len(cookie_array)
                   ELSE cookie_index]_vars

\* C19: the step of a cookie_rotate(Exhausted(i)) call under the writer lock
\* puts i into the reset_time of the current entry of the cookie_array, and
\* into the file when the write succeeds, then moves the index on; the entry
\* stays in the active list and the archive gets nothing
C19_ExhaustedSchedulesRetry ==
    [][\A t \in Tasks :
          /\ reason[t].kind = "Exhausted"
          /\ current_cookie_info(cookie_array, cookie_index) # NoCookie
          /\ CrMutate(t)
          => /\ cookie_array' =
                   [cookie_array EXCEPT ![cookie_index + 1].reset_time = reason[t].at]
             /\ disk' # disk
                   => disk'.cookie_array[cookie_index + 1].reset_time = reason[t].at
             /\ cookie_index' = (cookie_index + 1) % Len(cookie_array)
             /\ wasted_cookie' = wasted_cookie]_vars

\* Serving: the flag is clear and every cooldown task that set it has cleared
\* it again and has run its bootstrap
Serving ==
    /\ ~rotating
    /\ cooldown.flagged + cooldown.sleeping + cooldown.waking = 0

\* C20: with the spawned tasks scheduled fairly, whenever the rotating flag
\* is set a state follows in which the flag is clear and the bootstraps have
\* run, so that header_cookie passes its guard again
C20_RotatingLeadsToServing == rotating ~> Serving

\* a rotation has set the flag and its cooldown task sleeps
C20_Witness == rotating /\ cooldown.sleeping > 0
====
